---- MODULE Spec2Model ----
(***************************************************************************)
(* A model of adafruit_led_animation/sparkle.py: the Sparkle and           *)
(* SparklePulse animations over an externally owned pixel buffer.          *)
(*                                                                         *)
(* A colour is a tuple of channels; Python's None is the empty tuple,      *)
(* which no pixel ever equals.  The pixel buffer is a function on          *)
(* 0..len-1, as in Python.  Every operation is one action; what it did is  *)
(* kept in log (the writes and show() requests it made, in order), in      *)
(* raised (the exception it ended with) and in the pre* copies of the      *)
(* state it started from.                                                  *)
(***************************************************************************)
EXTENDS Integers, Sequences, FiniteSets

\* ---------------------------------------------------------------- bounds
MaxLen == 3
MaxSparkles == 2
\* Operations on one animation, its construction included.
MaxOps == 3

\* ---------------------------------------------------------------- values
None == <<>>

\* Base colours the caller assigns.  <<3,3,3>> has equal half and dim shades;
\* the half shade of <<40,40,40>> is the dim shade of <<100,100,100>>.
BaseColors == {<<3, 3, 3>>, <<100, 100, 100>>, <<40, 40, 40>>}

\* What the buffer may hold before the animation is constructed.
InitPixels == {<<0, 0, 0>>, <<10, 10, 10>>}

BufLen(buf) == Cardinality(DOMAIN buf)

Buffers == UNION {[0 .. (n - 1) -> InitPixels] : n \in 0 .. MaxLen}

\* ------------------------------------------------- Python float arithmetic
\* A Python float is an IEEE 754 binary64 number.  A non-negative one is
\* modelled exactly, as [m |-> its significand, e |-> its exponent], standing
\* for m * 2^e: m is a sequence of bits, least significant first, without a
\* top or a bottom zero bit, and of at most MantBits bits.  Every operation
\* computes the exact result and rounds it to nearest, ties to even, as the
\* hardware does.  (The numbers of this model stay far from the overflow and
\* subnormal ranges.)  The operations are functions, so that TLC computes
\* their arguments once.
MantBits == 53

Bit == {0, 1}
Bits == Seq(Bit)
Floats == [m : Bits, e : Int]

ToBits[n \in Nat] == IF n = 0 THEN <<>> ELSE <<n % 2>> \o ToBits[n \div 2]

ToInt[b \in Bits] == IF b = <<>> THEN 0 ELSE b[1] + 2 * ToInt[Tail(b)]

Zeros[k \in Nat] == [i \in 1 .. k |-> 0]

\* m * 2^k
Shift[m \in Bits, k \in Nat] == IF m = <<>> THEN <<>> ELSE Zeros[k] \o m

\* without the top zero bits
Trim[b \in Bits] ==
    IF b = <<>> \/ b[Len(b)] = 1 THEN b ELSE Trim[SubSeq(b, 1, Len(b) - 1)]

\* without the bottom zero bits
Canon[m \in Bits, e \in Int] ==
    IF m = <<>> THEN [m |-> <<>>, e |-> 0]
    ELSE IF m[1] = 1 THEN [m |-> m, e |-> e]
    ELSE Canon[Tail(m), e + 1]

AddBits[a \in Bits, b \in Bits, carry \in Bit] ==
    IF a = <<>> /\ b = <<>> THEN (IF carry = 1 THEN <<1>> ELSE <<>>)
    ELSE LET x == IF a = <<>> THEN 0 ELSE a[1]
             y == IF b = <<>> THEN 0 ELSE b[1]
             sum == x + y + carry
         IN  <<sum % 2>> \o AddBits[IF a = <<>> THEN a ELSE Tail(a),
                                    IF b = <<>> THEN b ELSE Tail(b),
                                    sum \div 2]

\* a - b for a >= b
SubBits[a \in Bits, b \in Bits, borrow \in Bit] ==
    IF a = <<>> THEN <<>>
    ELSE LET y == IF b = <<>> THEN 0 ELSE b[1]
             d == a[1] - y - borrow
         IN  <<d % 2>> \o SubBits[Tail(a),
                                  IF b = <<>> THEN b ELSE Tail(b),
                                  IF d < 0 THEN 1 ELSE 0]

MulBits[a \in Bits, b \in Bits] ==
    IF b = <<>> THEN <<>>
    ELSE IF b[1] = 1 THEN AddBits[a, Shift[MulBits[a, Tail(b)], 1], 0]
    ELSE Shift[MulBits[a, Tail(b)], 1]

BitsLess[a \in Bits, b \in Bits] ==
    \/ Len(a) < Len(b)
    \/ /\ Len(a) = Len(b)
       /\ \E i \in 1 .. Len(a) :
            /\ a[i] < b[i]
            /\ \A j \in (i + 1) .. Len(a) : a[j] = b[j]

\* The float nearest to m * 2^e, ties to even, for m without top zero bits.
RoundTrimmed[m \in Bits, e \in Int] ==
    LET n == Len(m)
        drop == n - MantBits
    IN  IF drop <= 0 THEN Canon[m, e]
        ELSE LET kept == SubSeq(m, drop + 1, n)
                 guard == m[drop]
                 sticky == \E i \in 1 .. (drop - 1) : m[i] = 1
                 up == guard = 1 /\ (sticky \/ kept[1] = 1)
             IN  Canon[IF up THEN AddBits[kept, <<1>>, 0] ELSE kept, e + drop]

Round[m \in Bits, e \in Int] == RoundTrimmed[Trim[m], e]

\* n * 2^e
Float[n \in Nat, e \in Int] == Canon[ToBits[n], e]

FAdd[x \in Floats, y \in Floats] ==
    LET e == IF x.e < y.e THEN x.e ELSE y.e
    IN  Round[AddBits[Shift[x.m, x.e - e], Shift[y.m, y.e - e], 0], e]

\* x - y for x >= y
FSub[x \in Floats, y \in Floats] ==
    LET e == IF x.e < y.e THEN x.e ELSE y.e
    IN  Round[SubBits[Shift[x.m, x.e - e], Shift[y.m, y.e - e], 0], e]

FMul[x \in Floats, y \in Floats] ==
    Round[IF Len(x.m) < Len(y.m) THEN MulBits[y.m, x.m] ELSE MulBits[x.m, y.m],
          x.e + y.e]

\* x < y
FLess[x \in Floats, y \in Floats] ==
    LET e == IF x.e < y.e THEN x.e ELSE y.e
    IN  BitsLess[Shift[x.m, x.e - e], Shift[y.m, y.e - e]]

\* The bits of the fraction r / b (0 <= r < b) after sig significant bits of
\* the quotient: enough of them to round, then one more that says whether
\* anything is left.
FracBits[r \in Nat, b \in Nat, sig \in Nat] ==
    IF r = 0 THEN <<>>
    ELSE IF sig >= MantBits + 2 THEN <<1>>
    ELSE LET bit == IF 2 * r >= b THEN 1 ELSE 0
         IN  FracBits[2 * r - bit * b, b,
                      IF sig > 0 \/ bit = 1 THEN sig + 1 ELSE 0] \o <<bit>>

\* Fraction bits below the bits of an integer part
Quotient[frac \in Bits, int \in Bits] == Round[frac \o int, 0 - Len(frac)]

\* a / b for integers a >= 0, b > 0
DivInt[a \in Nat, b \in Nat] ==
    Quotient[FracBits[a % b, b, Len(ToBits[a \div b])], ToBits[a \div b]]

\* x / y for a y whose significand is a small integer
FDiv[x \in Floats, y \in Floats] ==
    LET q == DivInt[ToInt[x.m], ToInt[y.m]]
    IN  Canon[q.m, q.e + x.e - y.e]

\* int(x)
FTrunc[x \in Floats] ==
    IF x.e >= 0 THEN ToInt[Shift[x.m, x.e]]
    ELSE IF 0 - x.e >= Len(x.m) THEN 0
    ELSE ToInt[SubSeq(x.m, 1 - x.e, Len(x.m))]

\* x % y for x >= 0, y > 0 whose significands, brought to a common exponent,
\* are small integers.  Python's float % is then fmod, which is exact.
FMod[x \in Floats, y \in Floats] ==
    LET e == IF x.e < y.e THEN x.e ELSE y.e
    IN  Float[ToInt[Shift[x.m, x.e - e]] % ToInt[Shift[y.m, y.e - e]], e]

\* ------------------------------------------------------------------ state
VARIABLES
    phase,              \* "new", "live" (constructed) or "failed" (__init__ raised)
    kind,               \* "Sparkle" or "SparklePulse"
    pixel_object,       \* the pixel buffer
    _color, _half_color, _dim_color,
    _num_sparkles,
    max_intensity, min_intensity, _period, _intensity_delta, _half_period,
    _position_factor, _bpp, _last_update, _cycle_position,
    intensity,          \* the intensity the last SparklePulse.draw() computed
    log,                \* the writes and show() requests of the last operation
    raised,             \* the exception the last operation ended with
    lastOp,             \* the last operation
    recolor,            \* the colour the last operation recomputed the shades for
    twice,              \* it did so right after a recompute for the same colour
    preBuf, preHalf, preDim,  \* buffer and shades before the last operation
    ops,                \* operations so far
    reassigned          \* the colour was changed after construction

colorVars == <<_color, _half_color, _dim_color>>
pulseVars == <<max_intensity, min_intensity, _period, _intensity_delta,
               _half_period, _position_factor, _bpp, _last_update,
               _cycle_position, intensity>>
vars == <<phase, kind, pixel_object, _color, _half_color, _dim_color,
          _num_sparkles, max_intensity, min_intensity, _period,
          _intensity_delta, _half_period, _position_factor, _bpp,
          _last_update, _cycle_position, intensity, log, raised, lastOp,
          recolor, twice, preBuf, preHalf, preDim, ops, reassigned>>

\* ------------------------------------------------------------ the shades
\* tuple(color[rgb] // d for rgb in range(len(color)))
Shade(color, d) == [rgb \in DOMAIN color |-> color[rgb] \div d]

\* _recompute_color with the elif replaced by a second, independent if.
RecomputeTwoIfs(buf, oldHalf, oldDim, color) ==
    LET half_color == Shade(color, 4)
        dim_color == Shade(color, 10)
        first(p) == IF p = oldHalf THEN half_color ELSE p
    IN  [buf |-> [pixel \in DOMAIN buf |->
                    IF first(buf[pixel]) = oldDim THEN dim_color
                    ELSE first(buf[pixel])],
         half |-> half_color,
         dim |-> dim_color]

\* _recompute_color that forgets to store the new dim shade.
RecomputeKeepsDim(buf, oldHalf, oldDim, color) ==
    LET half_color == Shade(color, 4)
        dim_color == Shade(color, 10)
    IN  [buf |-> [pixel \in DOMAIN buf |->
                    IF buf[pixel] = oldHalf THEN half_color
                    ELSE IF buf[pixel] = oldDim THEN dim_color
                    ELSE buf[pixel]],
         half |-> half_color,
         dim |-> oldDim]

\* _recompute_color that repaints the old half shade with the full colour.
RecomputeFull(buf, oldHalf, oldDim, color) ==
    LET half_color == Shade(color, 4)
        dim_color == Shade(color, 10)
    IN  [buf |-> [pixel \in DOMAIN buf |->
                    IF buf[pixel] = oldHalf THEN color
                    ELSE IF buf[pixel] = oldDim THEN dim_color
                    ELSE buf[pixel]],
         half |-> half_color,
         dim |-> dim_color]

\* Sparkle._recompute_color and SparklePulse._recompute_color (the same code):
\* the buffer and the stored shades after the call.  Each pixel is read and
\* written once, so the loop is a map over the buffer.
RecomputeColor(buf, oldHalf, oldDim, color) ==
    LET half_color == Shade(color, 4)
        dim_color == Shade(color, 10)
    IN  [buf |-> [pixel \in DOMAIN buf |->
                    IF buf[pixel] = oldHalf THEN half_color
                    ELSE IF buf[pixel] = oldDim THEN dim_color
                    ELSE buf[pixel]],
         half |-> half_color,
         dim |-> dim_color]

\* ------------------------------------------------------- what draw() does
WriteEv(i, shade, value) ==
    [op |-> "write", index |-> i, shade |-> shade, value |-> value, ok |-> TRUE]

\* self.show(): ok is whether the driver's show() returned; it raises otherwise.
ShowEv(ok) ==
    [op |-> "show", index |-> -1, shade |-> "", value |-> None, ok |-> ok]

\* random.randint(0, len(self.pixel_object) - 2), with the last index included.
RandIndicesToLast(buf) == 0 .. (BufLen(buf) - 1)

\* random.randint(0, len(self.pixel_object) - 2): both ends included.
RandIndices(buf) == 0 .. (BufLen(buf) - 2)

\* for pixel in pixels: self.pixel_object[pixel] = self._color
BrightWrites(pixels, color) ==
    [n \in 1 .. Len(pixels) |-> WriteEv(pixels[n], "base", color)]

\* The decay loop with the dim shade put on the pixel before, not after.
DecayWritesBefore(pixels, half, dim) ==
    [k \in 1 .. (2 * Len(pixels)) |->
        IF k % 2 = 1 THEN WriteEv(pixels[(k + 1) \div 2], "half", half)
        ELSE WriteEv(pixels[k \div 2] - 1, "dim", dim)]

\* for pixel in pixels: self.pixel_object[pixel] = self._half_color
\*                      self.pixel_object[pixel + 1] = self._dim_color
DecayWrites(pixels, half, dim) ==
    [k \in 1 .. (2 * Len(pixels)) |->
        IF k % 2 = 1 THEN WriteEv(pixels[(k + 1) \div 2], "half", half)
        ELSE WriteEv(pixels[k \div 2] + 1, "dim", dim)]

\* draw() with the two frames coalesced into one show().
DrawLogCoalesced(pixels, color, half, dim, fail) ==
    BrightWrites(pixels, color) \o DecayWrites(pixels, half, dim)
        \o <<ShowEv(fail = 0)>>

\* draw() that swallows a failure of the first show() and goes on.
DrawLogSwallow(pixels, color, half, dim, fail) ==
    BrightWrites(pixels, color) \o <<ShowEv(fail # 1)>>
        \o DecayWrites(pixels, half, dim) \o <<ShowEv(fail # 2)>>

\* Sparkle.draw, as the sequence of buffer writes and show() requests it makes.
\* fail is the show() of this call that raises (0: none); an exception ends
\* the call where it is raised.
DrawLog(pixels, color, half, dim, fail) ==
    LET bright == BrightWrites(pixels, color) \o <<ShowEv(fail # 1)>>
    IN  IF fail = 1 THEN bright
        ELSE bright \o DecayWrites(pixels, half, dim) \o <<ShowEv(fail # 2)>>

\* self.pixel_object[index] = value, for each write of events in order.
RECURSIVE Apply(_, _)
Apply(buf, events) ==
    IF events = <<>> THEN buf
    ELSE LET ev == Head(events)
         IN  Apply(IF ev.op = "write" THEN [buf EXCEPT ![ev.index] = ev.value]
                   ELSE buf,
                   Tail(events))

Raised(events) ==
    IF \E n \in 1 .. Len(events) : ~events[n].ok THEN "IOError" ELSE "none"

\* -------------------------------------------- what SparklePulse.draw does
\* The monotonic clock is read in whole milliseconds, so that
\* (now - self._last_update) / NANOS_PER_SECOND is ms / 1000, a true division
\* of integers, which Python rounds correctly.
Elapsed(ms) == DivInt[ms, 1000]

\* (self._cycle_position + time_since_last_draw) % self._period
Advance(position, elapsed, period) == FMod[FAdd[position, elapsed], period]

\* if pos > self._half_period: pos = self._period - pos
Fold(pos, half_period, period) ==
    IF FLess[half_period, pos] THEN FSub[period, pos] ELSE pos

\* self.min_intensity + (pos * self._intensity_delta * self._position_factor)
Intensity(min, pos, delta, factor) == FAdd[min, FMul[FMul[pos, delta], factor]]

\* [int(self.color[n] * intensity) for n in range(self._bpp)]
Scale(color, i, bpp) == [n \in 1 .. bpp |-> FTrunc[FMul[Float[color[n], 0], i]]]

\* ----------------------------------------------------------------- inputs
\* period: 4 s, 12.25 s and 22.75 s
Periods == {Float[32, -3], Float[98, -3], Float[182, -3]}

\* <<min_intensity, max_intensity>>: <<0, 1>>, <<0, 0.75>>, <<0.25, 1>>
Intensities == {<<Float[0, 0], Float[1, 0]>>, <<Float[0, 0], Float[3, -2]>>,
                <<Float[1, -2], Float[1, 0]>>}

\* Milliseconds between two readings of the clock.
Dts == {0, 2000, 6125, 11375}

\* ------------------------------------------------------- the base class
\* Animation.color's setter: the set of choices of whether _recompute_color
\* runs.  It runs when the colour changes; assigning the colour the animation
\* already has may or may not run it again.
SetterRuns(current, color) == IF current # color THEN {TRUE} ELSE {TRUE, FALSE}

\* ---------------------------------------------------------------- actions
Init ==
    /\ phase = "new"
    /\ kind = "none"
    /\ pixel_object \in Buffers
    /\ _color = None /\ _half_color = None /\ _dim_color = None
    /\ _num_sparkles = 0
    /\ max_intensity = Float[0, 0] /\ min_intensity = Float[0, 0]
    /\ _period = Float[0, 0] /\ _intensity_delta = Float[0, 0]
    /\ _half_period = Float[0, 0] /\ _position_factor = Float[0, 0]
    /\ _bpp = 0 /\ _last_update = 0 /\ _cycle_position = Float[0, 0]
    /\ intensity = Float[0, 0]
    /\ log = <<>> /\ raised = "none" /\ lastOp = "none"
    /\ recolor = None /\ twice = FALSE
    /\ preBuf = pixel_object /\ preHalf = None /\ preDim = None
    /\ ops = 0
    /\ reassigned = FALSE

\* What every operation records of itself.
Record(op, events, color, again) ==
    /\ lastOp' = op
    /\ log' = events
    /\ raised' = Raised(events)
    /\ recolor' = color
    /\ twice' = again
    /\ preBuf' = pixel_object
    /\ preHalf' = _half_color
    /\ preDim' = _dim_color
    /\ ops' = ops + 1

\* The length check with the bound off by one.
TooShortByOne(buf) == BufLen(buf) < 1

\* if len(pixel_object) < 2: raise ValueError("Sparkle needs at least 2 pixels")
TooShort(buf) == BufLen(buf) < 2

\* __init__ raised ValueError: nothing was assigned, and the caller gets no
\* instance to call.
ConstructFails(class) ==
    /\ phase' = "failed"
    /\ kind' = class
    /\ lastOp' = "construct"
    /\ raised' = "ValueError"
    /\ ops' = ops + 1
    /\ UNCHANGED <<pixel_object, colorVars, _num_sparkles, pulseVars, log,
                   recolor, twice, preBuf, preHalf, preDim, reassigned>>

\* super().__init__(pixel_object, speed, color): the colour is assigned, which
\* runs _recompute_color with the shades still unset.
AnimationInit(class, color) ==
    LET r == RecomputeColor(pixel_object, None, None, color)
    IN  /\ phase' = "live"
        /\ kind' = class
        /\ _color' = color
        /\ pixel_object' = r.buf
        /\ _half_color' = r.half
        /\ _dim_color' = r.dim
        /\ Record("construct", <<>>, color, FALSE)

\* Sparkle(pixel_object, speed, color, num_sparkles)
Construct ==
    /\ phase = "new"
    /\ \E color \in BaseColors, num_sparkles \in 0 .. MaxSparkles :
         IF TooShort(pixel_object) THEN ConstructFails("Sparkle")
         ELSE /\ _num_sparkles' = num_sparkles
              /\ AnimationInit("Sparkle", color)
              /\ UNCHANGED <<pulseVars, reassigned>>

\* SparklePulse(pixel_object, speed, color, period, max_intensity, min_intensity)
ConstructPulse ==
    /\ phase = "new"
    /\ \E color \in BaseColors, period \in Periods, mm \in Intensities :
         IF TooShort(pixel_object) THEN ConstructFails("SparklePulse")
         ELSE /\ max_intensity' = mm[2]
              /\ min_intensity' = mm[1]
              /\ _period' = period
              /\ _intensity_delta' = FSub[mm[2], mm[1]]
              /\ _half_period' = FDiv[period, Float[2, 0]]
              /\ _position_factor' = FDiv[Float[1, 0], FDiv[period, Float[2, 0]]]
              /\ _bpp' = Len(pixel_object[0])
              /\ _last_update' = 0
              /\ _cycle_position' = Float[0, 0]
              /\ AnimationInit("SparklePulse", color)
              /\ UNCHANGED <<_num_sparkles, intensity, reassigned>>

\* animation.color = color
SetColor ==
    /\ phase = "live"
    /\ ops < MaxOps
    /\ \E color \in BaseColors, runs \in BOOLEAN :
         /\ runs \in SetterRuns(_color, color)
         /\ _color' = color
         /\ reassigned' = (reassigned \/ color # _color)
         /\ IF runs
            THEN LET r == RecomputeColor(pixel_object, _half_color, _dim_color,
                                         color)
                 IN  /\ pixel_object' = r.buf
                     /\ _half_color' = r.half
                     /\ _dim_color' = r.dim
                     /\ Record("set_color", <<>>, color, recolor = color)
            ELSE /\ UNCHANGED <<pixel_object, _half_color, _dim_color>>
                 /\ Record("set_color", <<>>, None, FALSE)
    /\ UNCHANGED <<phase, kind, _num_sparkles, pulseVars>>

\* Sparkle.draw()
Draw ==
    /\ phase = "live"
    /\ ops < MaxOps
    /\ kind = "Sparkle"
    /\ \E pixels \in [1 .. _num_sparkles -> RandIndices(pixel_object)],
          fail \in 0 .. 2 :
         LET events == DrawLog(pixels, _color, _half_color, _dim_color, fail)
         IN  /\ pixel_object' = Apply(pixel_object, events)
             /\ Record("draw", events, None, FALSE)
    /\ UNCHANGED <<phase, kind, colorVars, _num_sparkles, pulseVars, reassigned>>

\* SparklePulse.draw().  (The values are bound with \E over one-element sets
\* so that each is computed once.)
PulseDraw ==
    /\ phase = "live"
    /\ ops < MaxOps
    /\ kind = "SparklePulse"
    /\ \E dt \in Dts :
       \E position \in {Advance(_cycle_position, Elapsed(dt), _period)} :
       \E i \in {Intensity(min_intensity, Fold(position, _half_period, _period),
                           _intensity_delta, _position_factor)} :
       \E color \in {Scale(_color, i, _bpp)} :
       \E pixel \in RandIndices(pixel_object), fail \in 0 .. 1 :
         LET now == _last_update + dt
             events == <<WriteEv(pixel, "pulse", color), ShowEv(fail # 1)>>
         IN  /\ _last_update' = now
             /\ _cycle_position' = position
             /\ intensity' = i
             /\ pixel_object' = Apply(pixel_object, events)
             /\ Record("draw", events, None, FALSE)
    /\ UNCHANGED <<phase, kind, colorVars, _num_sparkles, max_intensity,
                   min_intensity, _period, _intensity_delta, _half_period,
                   _position_factor, _bpp, reassigned>>

\* Both animations
Next == Construct \/ ConstructPulse \/ SetColor \/ Draw \/ PulseDraw

Spec == Init /\ [][Next]_vars

\* A Sparkle alone
SparkleNext == Construct \/ SetColor \/ Draw

SparkleSpec == Init /\ [][SparkleNext]_vars

\* ================================================================ claims
\* What the log of the last operation says.
Writes(shade) == {n \in 1 .. Len(log) : log[n].shade = shade}
Shows == {n \in 1 .. Len(log) : log[n].op = "show"}
Written == {log[n].index : n \in {k \in 1 .. Len(log) : log[k].op = "write"}}
Chosen == {log[n].index : n \in Writes("base")}
SparkleDrawn == lastOp = "draw" /\ kind = "Sparkle"
PulseDrawn == lastOp = "draw" /\ kind = "SparklePulse"
FirstShowFailed == \E n \in Shows : ~log[n].ok /\ \A k \in Shows : n <= k

\* C1: a Sparkle.draw() that completes makes exactly two show() requests;
\* every write of the full colour comes before the first of them, every write
\* of the half and dim shades between the first and the second.
C1_TwoSequentialFlushes ==
    (SparkleDrawn /\ raised = "none") =>
        /\ Cardinality(Shows) = 2
        /\ Cardinality(Writes("base")) = _num_sparkles
        /\ Cardinality(Writes("half")) = _num_sparkles
        /\ Cardinality(Writes("dim")) = _num_sparkles
        /\ \A f \in Shows, n \in Writes("base") : n < f
        /\ \A n \in Writes("half") \cup Writes("dim") :
             /\ \E f \in Shows : f < n
             /\ \E f \in Shows : n < f

C1_Witness ==
    SparkleDrawn /\ raised = "none" /\ _num_sparkles >= 2

\* C2: every index written with the dim shade by a Sparkle.draw() is the
\* successor of an index the same call wrote with the full colour.
C2_DimFollowsBright ==
    SparkleDrawn =>
        \A n \in Writes("dim") :
            \E k \in Writes("base") : log[n].index = log[k].index + 1

\* a draw that chose the same index twice
C2_Witness ==
    /\ SparkleDrawn
    /\ Writes("dim") # {}
    /\ \E j, k \in Writes("base") : j # k /\ log[j].index = log[k].index

\* C3 as stated: after _recompute_color, every pixel that held the old half
\* shade holds the new one, every pixel that held the old dim shade holds the
\* new one, and every other pixel is unchanged.
C3_AsStated ==
    recolor # None =>
        \A p \in DOMAIN pixel_object :
            /\ preBuf[p] = preHalf => pixel_object[p] = Shade(recolor, 4)
            /\ preBuf[p] = preDim => pixel_object[p] = Shade(recolor, 10)
            /\ preBuf[p] \notin {preHalf, preDim} => pixel_object[p] = preBuf[p]

\* C3, amended: a pixel that held the old dim shade holds the new dim shade
\* when the old dim shade differs from the old half shade; a pixel that held
\* the old half shade holds the new half shade.
C3_HalfBeforeDim ==
    recolor # None =>
        \A p \in DOMAIN pixel_object :
            /\ preBuf[p] = preHalf => pixel_object[p] = Shade(recolor, 4)
            /\ (preBuf[p] = preDim /\ preBuf[p] # preHalf) =>
                   pixel_object[p] = Shade(recolor, 10)
            /\ preBuf[p] \notin {preHalf, preDim} => pixel_object[p] = preBuf[p]

\* a recompute over a buffer with a pixel of the old half shade, one of the
\* old dim shade and one of neither
C3_Witness ==
    /\ recolor # None
    /\ preHalf # None
    /\ \E p, q, r \in DOMAIN pixel_object :
         /\ preBuf[p] = preHalf
         /\ preBuf[q] = preDim /\ preBuf[q] # preHalf
         /\ preBuf[r] \notin {preHalf, preDim}

\* C4: _recompute_color run again for the same colour changes neither the
\* buffer nor the stored shades.
C4_RecomputeIdempotent ==
    twice =>
        /\ pixel_object = preBuf
        /\ _half_color = preHalf
        /\ _dim_color = preDim

\* the second run found a pixel holding one of the shades
C4_Witness ==
    /\ twice
    /\ \E p \in DOMAIN pixel_object : pixel_object[p] \in {_half_color, _dim_color}

\* C5: after a SparklePulse.draw() the cycle position is in [0, period), the
\* intensity is in [min_intensity, max_intensity], and every written channel
\* is between int(base * min_intensity) and int(base * max_intensity).
C5_IntensityBounded ==
    PulseDrawn =>
        /\ FLess[_cycle_position, _period]
        /\ ~FLess[intensity, min_intensity]
        /\ ~FLess[max_intensity, intensity]
        /\ \A n \in Writes("pulse"), ch \in 1 .. _bpp :
             /\ log[n].value[ch] >= Scale(_color, min_intensity, _bpp)[ch]
             /\ log[n].value[ch] <= Scale(_color, max_intensity, _bpp)[ch]

\* C6: at the half period the intensity is max_intensity and the colour
\* written is the base colour scaled by it, at position 0 the intensity is
\* min_intensity, and the positions p and period - p give the same intensity.
C6_TriangularIntensity ==
    PulseDrawn =>
        /\ _cycle_position = _half_period =>
             /\ intensity = max_intensity
             /\ \A n \in Writes("pulse") :
                  log[n].value = Scale(_color, max_intensity, _bpp)
        /\ _cycle_position = Float[0, 0] =>
             /\ intensity = min_intensity
             /\ \A n \in Writes("pulse") :
                  log[n].value = Scale(_color, min_intensity, _bpp)
        /\ _cycle_position # Float[0, 0] =>
             intensity =
                 Intensity(min_intensity,
                           Fold(FSub[_period, _cycle_position], _half_period,
                                _period),
                           _intensity_delta, _position_factor)

\* C7: when the first show() of a Sparkle.draw() raises, the call ends there:
\* the error reaches the caller, no half or dim shade has been written, no
\* second show() was requested, and the chosen pixels hold the full colour.
C7_FirstFlushFailureStops ==
    (SparkleDrawn /\ FirstShowFailed) =>
        /\ raised = "IOError"
        /\ Writes("half") = {} /\ Writes("dim") = {}
        /\ Cardinality(Shows) = 1
        /\ \A p \in DOMAIN pixel_object :
             pixel_object[p] = IF p \in Chosen THEN _color ELSE preBuf[p]

C7_Witness ==
    SparkleDrawn /\ FirstShowFailed /\ Cardinality(Chosen) >= 2

\* C8: over a buffer of fewer than 2 pixels the constructors raise before
\* anything is initialised or written and no operation on the instance
\* follows; over 2 pixels or more the length check does not raise.
C8_ShortBufferRejected ==
    /\ phase = "failed" =>
         /\ BufLen(pixel_object) < 2
         /\ raised = "ValueError"
         /\ lastOp = "construct" /\ ops = 1
         /\ log = <<>>
         /\ pixel_object = preBuf
         /\ _color = None /\ _half_color = None /\ _dim_color = None
         /\ _bpp = 0
    /\ phase = "live" => BufLen(pixel_object) >= 2
    /\ lastOp = "draw" => phase = "live"

C8_Witness ==
    phase = "failed" /\ kind = "Sparkle" /\ BufLen(pixel_object) = 1

\* C9: a Sparkle.draw() writes at most 2 * num_sparkles distinct slots, chooses
\* indices in [0, N-2], writes indices in [0, N) only, and leaves every slot
\* that is neither chosen nor the successor of a chosen one unchanged.
C9_DrawFootprint ==
    SparkleDrawn =>
        /\ Cardinality(Written) <= 2 * _num_sparkles
        /\ Chosen \subseteq 0 .. (BufLen(pixel_object) - 2)
        /\ Written \subseteq 0 .. (BufLen(pixel_object) - 1)
        /\ DOMAIN pixel_object = DOMAIN preBuf
        /\ \A p \in DOMAIN pixel_object :
             (p \notin Chosen /\ (p - 1) \notin Chosen) =>
                 pixel_object[p] = preBuf[p]

\* a draw of two sparkles that left a slot alone
C9_Witness ==
    /\ SparkleDrawn
    /\ Cardinality(Writes("base")) >= 2
    /\ \E p \in DOMAIN pixel_object : p \notin Written

\* C10: whenever a Sparkle can draw, its stored shades are set and are those
\* of its current colour, and a draw writes no other half or dim shade.
C10_ShadesCurrent ==
    (phase = "live" /\ kind = "Sparkle") =>
        /\ _half_color # None /\ _dim_color # None
        /\ _half_color = Shade(_color, 4)
        /\ _dim_color = Shade(_color, 10)
        /\ \A n \in Writes("half") : log[n].value = Shade(_color, 4)
        /\ \A n \in Writes("dim") : log[n].value = Shade(_color, 10)

\* a draw after the colour was changed
C10_Witness ==
    SparkleDrawn /\ reassigned /\ Writes("dim") # {}

====
